---- MODULE Spec2Model ----
(***************************************************************************)
(* Model of the knowledge-extractor service: the handlers that analyse     *)
(* one text and a batch of texts, the provider and the keyword extractor   *)
(* behind them and the analyses table they write.                          *)
(*                                                                         *)
(* Strings are sequences of one-character strings, so that TrimSpace,      *)
(* Fields, Join and Title are computed the way the Go library computes     *)
(* them.                                                                   *)
(***************************************************************************)
EXTENDS Integers, Sequences, FiniteSets, TLC

VARIABLES
    provider,   \* Handler.llmProvider: which Provider the handler was built with
    store,      \* rows of the analyses table
    given,      \* history: the AnalysisResult the provider returned, by record id
    returned,   \* history: the ids of the successes returned to callers so far
    served,     \* number of texts admitted to the pipeline so far
    bpc,        \* position of the batch handler: "idle", "launch", "wait"
    texts,      \* req.Texts of the batch in progress
    launched,   \* number of iterations of the launch loop already done
    wg,         \* sync.WaitGroup counter of the batch in progress
    sem,        \* number of tokens in the semaphore channel
    tpc,        \* position of each item goroutine
    results,    \* results slice of the batch in progress
    errors,     \* errors slice of the batch in progress
    idBase,     \* the identifiers of the batch in progress come after it
    resp,       \* response to the request served last (NoResp while it is served)
    call,       \* the function called directly and its arguments (NoCall if none)
    ret         \* what that call returned (NoRet until it returns)

vars == <<provider, store, given, returned, served, bpc, texts, launched, wg, sem, tpc,
          results, errors, idBase, resp, call, ret>>

batchVars == <<bpc, texts, launched, wg, sem, tpc, results, errors, idBase>>

----------------------------------------------------------------------------
(* Bounds of the model *)

\* total number of texts the clients submit for analysis in one behaviour
MaxItems == 4

\* how many texts over the batch limit an oversize request may carry
MaxOver == 1

\* longest list of arbitrary texts a batch request carries
MaxLen == 5

(* Program constants *)

\* make(chan struct{}, 3)
SemaphoreSize == 3

\* len(req.Texts) > 10
MaxBatchSize == 10

\* mock summary: floor and ceiling of the number of leading words, len/10
SummaryMin == 5
SummaryMax == 20
SummaryDiv == 10

\* mock title: built from the first 3 words when there are more than 3
TitleWords == 3

----------------------------------------------------------------------------
(* strings *)

Min(a, b) == IF a < b THEN a ELSE b

\* unicode.IsSpace on the characters of the model's alphabet
IsSpace(c) == c \in {" ", "\t", "\n"}

RECURSIVE TrimLeft(_)
TrimLeft(s) ==
    IF s = <<>> THEN <<>>
    ELSE IF IsSpace(Head(s)) THEN TrimLeft(Tail(s)) ELSE s

RECURSIVE TrimRight(_)
TrimRight(s) ==
    IF s = <<>> THEN <<>>
    ELSE IF IsSpace(s[Len(s)]) THEN TrimRight(SubSeq(s, 1, Len(s) - 1)) ELSE s

\* strings.TrimSpace
TrimSpace(s) == TrimRight(TrimLeft(s))

\* strings.Fields: the maximal runs of non-space characters, in order; the
\* k-th run goes from the k-th position that starts a run to the k-th
\* position that ends one
Fields(s) ==
    LET starts == {i \in 1..Len(s) : ~IsSpace(s[i]) /\ (i = 1 \/ IsSpace(s[i - 1]))}
        ends == {i \in 1..Len(s) : ~IsSpace(s[i]) /\ (i = Len(s) \/ IsSpace(s[i + 1]))}
        startRank == [i \in starts |-> Cardinality({j \in starts : j <= i})]
        endRank == [i \in ends |-> Cardinality({j \in ends : j <= i})]
    IN  [k \in 1..Cardinality(starts) |->
            SubSeq(s, CHOOSE i \in starts : startRank[i] = k,
                      CHOOSE i \in ends : endRank[i] = k)]

\* strings.Join(words, " ")
RECURSIVE Join(_)
Join(ws) ==
    IF ws = <<>> THEN <<>>
    ELSE IF Len(ws) = 1 THEN ws[1]
    ELSE ws[1] \o <<" ">> \o Join(Tail(ws))

LowerLetters == "abcdefghijklmnopqrstuvwxyz"
UpperLetters == "ABCDEFGHIJKLMNOPQRSTUVWXYZ"
Digits == "0123456789"

\* the characters of a string literal, and the literal of a character sequence
Chars(str) == [i \in 1..Len(str) |-> SubSeq(str, i, i)]

RECURSIVE Str(_)
Str(s) == IF s = <<>> THEN "" ELSE Head(s) \o Str(Tail(s))

\* strings.IndexByte, counting from 1; 0 when c is not in str
IndexOf(str, c) ==
    IF \E i \in 1..Len(str) : SubSeq(str, i, i) = c
    THEN CHOOSE i \in 1..Len(str) : SubSeq(str, i, i) = c
    ELSE 0

LowerSet == {SubSeq(LowerLetters, i, i) : i \in 1..Len(LowerLetters)}
UpperSet == {SubSeq(UpperLetters, i, i) : i \in 1..Len(UpperLetters)}
DigitSet == {SubSeq(Digits, i, i) : i \in 1..Len(Digits)}

\* the upper-case letter of each lower-case letter and the reverse, and
\* the place of each lower-case letter in the byte order
UpperOf == [c \in LowerSet |-> Chars(UpperLetters)[IndexOf(LowerLetters, c)]]
LowerOf == [c \in UpperSet |-> Chars(LowerLetters)[IndexOf(UpperLetters, c)]]
RankOf == [c \in LowerSet |-> IndexOf(LowerLetters, c)]

IsUpper(c) == c \in UpperSet
IsLower(c) == c \in LowerSet
IsLetter(c) == IsUpper(c) \/ IsLower(c)
IsDigit(c) == c \in DigitSet

\* unicode.ToUpper, unicode.ToLower on ASCII
ToUpper(c) == IF IsLower(c) THEN UpperOf[c] ELSE c

ToLower(c) == IF IsUpper(c) THEN LowerOf[c] ELSE c

\* strings.ToLower
ToLowerStr(s) == [i \in 1..Len(s) |-> ToLower(s[i])]

\* strings.HasSuffix, the suffix given as a literal
HasSuffix(s, suffix) ==
    /\ Len(s) >= Len(suffix)
    /\ Str(SubSeq(s, Len(s) - Len(suffix) + 1, Len(s))) = suffix

\* a < b for Go strings of lower-case letters: byte-wise lexicographic order
RECURSIVE StrLess(_, _)
StrLess(a, b) ==
    IF b = <<>> THEN FALSE
    ELSE IF a = <<>> THEN TRUE
    ELSE IF Head(a) = Head(b) THEN StrLess(Tail(a), Tail(b))
    ELSE RankOf[Head(a)] < RankOf[Head(b)]

\* isSeparator of package strings on ASCII: letters, digits and the
\* underscore are not separators, everything else is
IsSeparator(c) == ~(IsLetter(c) \/ IsDigit(c) \/ c = "_")

\* strings.Title: the letter that begins a word in upper case
Title(s) ==
    [i \in 1..Len(s) |->
        IF (i = 1 \/ IsSeparator(s[i - 1])) THEN ToUpper(s[i]) ELSE s[i]]

----------------------------------------------------------------------------
(* encoding/json: the texts json.Marshal writes and json.Unmarshal reads *)

RECURSIVE Concat(_)
\* the concatenation of a sequence of strings
Concat(ss) == IF ss = <<>> THEN <<>> ELSE Head(ss) \o Concat(Tail(ss))

\* an encoder that writes every character as it is
EscapeCharRaw(c) == <<c>>

\* what the encoder writes for one character of a string
EscapeChar(c) ==
    IF c = "\"" THEN <<"\\", "\"">>
    ELSE IF c = "\\" THEN <<"\\", "\\">>
    ELSE IF c = "\n" THEN <<"\\", "n">>
    ELSE IF c = "\t" THEN <<"\\", "t">>
    ELSE IF c = "<" THEN Chars("\\u003c")
    ELSE IF c = ">" THEN Chars("\\u003e")
    ELSE IF c = "&" THEN Chars("\\u0026")
    ELSE <<c>>

\* a string as a JSON string
Quote(s) == <<"\"">> \o Concat([i \in 1..Len(s) |-> EscapeChar(s[i])]) \o <<"\"">>

RECURSIVE CommaJoin(_)
\* the texts of ts with a comma between them
CommaJoin(ts) ==
    IF ts = <<>> THEN <<>>
    ELSE IF Len(ts) = 1 THEN ts[1]
    ELSE ts[1] \o <<",">> \o CommaJoin(Tail(ts))

\* a []string as a JSON array
MarshalStrings(ss) == <<"[">> \o CommaJoin([i \in 1..Len(ss) |-> Quote(ss[i])]) \o <<"]">>

\* the outcome of reading one JSON value: the value and the position after
\* it.  A value is a record with its kind ("string", "array", "object",
\* "number", "null", "true", "false") and, by kind, its str, its items, its
\* members (key and val, in the order of the text) or its digits.
\* ParseJSON is the decoder's reading of a text: the value when the text is
\* one JSON value and nothing else.
ParseJSON(s) ==
    LET JOk(val, next) == [ok |-> TRUE, val |-> val, next |-> next]
        JFail == [ok |-> FALSE]
        \* the character at position i, "" past the end
        CharAt(i) == IF i >= 1 /\ i <= Len(s) THEN s[i] ELSE ""
        StartsWith(i, lit) ==
            /\ i + Len(lit) - 1 <= Len(s)
            /\ SubSeq(s, i, i + Len(lit) - 1) = Chars(lit)
        RECURSIVE SkipWs(_)
        SkipWs(i) == IF CharAt(i) \in {" ", "\t", "\n", "\r"} THEN SkipWs(i + 1) ELSE i
        RECURSIVE ScanDigits(_)
        ScanDigits(i) == IF IsDigit(CharAt(i)) THEN ScanDigits(i + 1) ELSE i
        \* a number: an optional sign and digits
        ScanNumber(i, from) ==
            IF ScanDigits(from) > from
            THEN JOk([kind |-> "number", digits |-> SubSeq(s, i, ScanDigits(from) - 1)],
                     ScanDigits(from))
            ELSE JFail
        \* the character a \uXXXX escape stands for, of the escapes the
        \* encoder writes
        UnicodeEscape(hex) ==
            IF hex = Chars("003c") THEN "<"
            ELSE IF hex = Chars("003e") THEN ">"
            ELSE IF hex = Chars("0026") THEN "&"
            ELSE ""
        RECURSIVE ScanString(_, _)
        RECURSIVE ScanEscape(_, _)
        \* the rest of a string whose opening quote was read; acc is what
        \* was read of it
        ScanString(i, acc) ==
            IF i > Len(s) \/ s[i] \in {"\n", "\t", "\r"} THEN JFail
            ELSE IF s[i] = "\"" THEN JOk([kind |-> "string", str |-> acc], i + 1)
            ELSE IF s[i] = "\\" THEN ScanEscape(i + 1, acc)
            ELSE ScanString(i + 1, Append(acc, s[i]))
        \* the character after a backslash
        ScanEscape(i, acc) ==
            IF CharAt(i) \in {"\"", "\\", "/"} THEN ScanString(i + 1, Append(acc, s[i]))
            ELSE IF CharAt(i) = "n" THEN ScanString(i + 1, Append(acc, "\n"))
            ELSE IF CharAt(i) = "t" THEN ScanString(i + 1, Append(acc, "\t"))
            ELSE IF CharAt(i) = "r" THEN ScanString(i + 1, Append(acc, "\r"))
            ELSE IF CharAt(i) = "u" /\ i + 4 <= Len(s)
                        /\ UnicodeEscape(SubSeq(s, i + 1, i + 4)) # ""
                 THEN ScanString(i + 5, Append(acc, UnicodeEscape(SubSeq(s, i + 1, i + 4))))
            ELSE JFail
        RECURSIVE ParseValue(_)
        RECURSIVE ParseElements(_, _)
        RECURSIVE AfterElement(_, _)
        RECURSIVE ParseMembers(_, _)
        RECURSIVE AfterKey(_, _)
        RECURSIVE AfterMember(_, _, _)
        \* the value that starts at position i
        ParseValue(i) ==
            IF CharAt(i) = "\"" THEN ScanString(i + 1, <<>>)
            ELSE IF CharAt(i) = "[" THEN ParseElements(SkipWs(i + 1), <<>>)
            ELSE IF CharAt(i) = "{" THEN ParseMembers(SkipWs(i + 1), <<>>)
            ELSE IF StartsWith(i, "null") THEN JOk([kind |-> "null"], i + 4)
            ELSE IF StartsWith(i, "true") THEN JOk([kind |-> "true"], i + 4)
            ELSE IF StartsWith(i, "false") THEN JOk([kind |-> "false"], i + 5)
            ELSE IF CharAt(i) = "-" THEN ScanNumber(i, i + 1)
            ELSE ScanNumber(i, i)
        \* the elements of an array from position i on; acc are those read
        ParseElements(i, acc) ==
            IF acc = <<>> /\ CharAt(i) = "]" THEN JOk([kind |-> "array", items |-> <<>>], i + 1)
            ELSE AfterElement(ParseValue(i), acc)
        AfterElement(r, acc) ==
            IF ~r.ok THEN JFail
            ELSE IF CharAt(SkipWs(r.next)) = ","
                 THEN ParseElements(SkipWs(SkipWs(r.next) + 1), Append(acc, r.val))
            ELSE IF CharAt(SkipWs(r.next)) = "]"
                 THEN JOk([kind |-> "array", items |-> Append(acc, r.val)],
                          SkipWs(r.next) + 1)
            ELSE JFail
        \* the members of an object from position i on; acc are those read
        ParseMembers(i, acc) ==
            IF acc = <<>> /\ CharAt(i) = "}"
            THEN JOk([kind |-> "object", members |-> <<>>], i + 1)
            ELSE IF CharAt(i) = "\"" THEN AfterKey(ScanString(i + 1, <<>>), acc)
            ELSE JFail
        AfterKey(k, acc) ==
            IF k.ok /\ CharAt(SkipWs(k.next)) = ":"
            THEN AfterMember(k.val.str, ParseValue(SkipWs(SkipWs(k.next) + 1)), acc)
            ELSE JFail
        AfterMember(key, r, acc) ==
            IF ~r.ok THEN JFail
            ELSE IF CharAt(SkipWs(r.next)) = ","
                 THEN ParseMembers(SkipWs(SkipWs(r.next) + 1),
                                   Append(acc, [key |-> key, val |-> r.val]))
            ELSE IF CharAt(SkipWs(r.next)) = "}"
                 THEN JOk([kind |-> "object",
                           members |-> Append(acc, [key |-> key, val |-> r.val])],
                          SkipWs(r.next) + 1)
            ELSE JFail
        \* one value and nothing after it
        WholeText(r) == IF r.ok /\ SkipWs(r.next) = Len(s) + 1 THEN r ELSE JFail
    IN  WholeText(ParseValue(SkipWs(1)))

----------------------------------------------------------------------------
(* llm: the provider *)

ErrEmptyInput == "empty input text"
ErrLLMUnavailable == "LLM service unavailable"
ErrInvalidJSON == "invalid JSON response from LLM"
\* context errors (ctx.Err())
DeadlineExceeded == "context deadline exceeded"
Canceled == "context canceled"

Sentiments == {"positive", "neutral", "negative"}

MockTopics == <<"technology", "innovation", "analysis">>

\* parseJSONResponse: the topics put in place of an empty list, and the
\* longest list of topics kept
DefaultTopics == <<"general", "uncategorized", "text">>
MaxTopics == 3

\* AnalysisResult
Result(summary, title, topics, sentiment) ==
    [summary |-> summary, title |-> title, topics |-> topics, sentiment |-> sentiment]

Ok(r) == [err |-> "", result |-> r]
Fail(e) == [err |-> e]

\* json.Unmarshal([]byte(content), &result) with result the zero
\* AnalysisResult: an object is decoded member by member, null leaves the
\* result as it is, a text that is no JSON value or a value of another kind
\* is an error
UnmarshalResult(content) ==
    LET \* json.Unmarshal of one value into a string field: a string is stored, null
        \* leaves the field as it is, any other value is an error
        DecodeString(old, v) ==
            IF v.kind = "string" THEN [ok |-> TRUE, val |-> v.str]
            ELSE [ok |-> v.kind = "null", val |-> old]
        \* json.Unmarshal of one value into the []string field: an array is stored
        \* element by element over the slice the field holds (a null element leaves
        \* the element as it is, "" in a new one), null empties the field, any other
        \* value or element is an error
        DecodeTopics(old, v) ==
            IF v.kind = "array"
            THEN [ok |-> \A i \in DOMAIN v.items : v.items[i].kind \in {"string", "null"},
                  val |-> [i \in DOMAIN v.items |->
                             IF v.items[i].kind = "string" THEN Str(v.items[i].str)
                             ELSE IF i <= Len(old) THEN old[i] ELSE ""]]
            ELSE IF v.kind = "null" THEN [ok |-> TRUE, val |-> <<>>]
            ELSE [ok |-> FALSE, val |-> old]
        \* one member of the object decoded into the struct: the field whose json
        \* name is the key, compared without case; other keys are skipped
        DecodeMember(r, key, v) ==
            IF key = "summary"
            THEN [ok |-> DecodeString(r.summary, v).ok,
                  r |-> [r EXCEPT !.summary = DecodeString(r.summary, v).val]]
            ELSE IF key = "title"
            THEN [ok |-> DecodeString(r.title, v).ok,
                  r |-> [r EXCEPT !.title = DecodeString(r.title, v).val]]
            ELSE IF key = "topics"
            THEN [ok |-> DecodeTopics(r.topics, v).ok,
                  r |-> [r EXCEPT !.topics = DecodeTopics(r.topics, v).val]]
            ELSE IF key = "sentiment"
            THEN [ok |-> DecodeString(Chars(r.sentiment), v).ok,
                  r |-> [r EXCEPT !.sentiment = Str(DecodeString(Chars(r.sentiment), v).val)]]
            ELSE [ok |-> TRUE, r |-> r]
        \* the members of the object decoded in the order of the text; the decoder
        \* goes on after a value of the wrong type and reports the error at the end
        RECURSIVE DecodeMembers(_, _)
        DecodeMembers(members, r) ==
            IF members = <<>> THEN [ok |-> TRUE, r |-> r]
            ELSE [ok |-> /\ DecodeMember(r, Str(ToLowerStr(Head(members).key)), Head(members).val).ok
                         /\ DecodeMembers(Tail(members),
                               DecodeMember(r, Str(ToLowerStr(Head(members).key)),
                                            Head(members).val).r).ok,
                  r |-> DecodeMembers(Tail(members),
                           DecodeMember(r, Str(ToLowerStr(Head(members).key)),
                                        Head(members).val).r).r]
    IN  IF ~ParseJSON(content).ok THEN [ok |-> FALSE]
        ELSE IF ParseJSON(content).val.kind = "null"
        THEN [ok |-> TRUE, r |-> Result(<<>>, <<>>, <<>>, "")]
        ELSE IF ParseJSON(content).val.kind = "object"
        THEN DecodeMembers(ParseJSON(content).val.members, Result(<<>>, <<>>, <<>>, ""))
        ELSE [ok |-> FALSE]

\* defaults that keep every topic of a long list
ResultDefaultsKeepTopics(r) ==
    Result(IF r.summary = <<>> THEN Chars("No summary available") ELSE r.summary,
           r.title,
           IF Len(r.topics) = 0 THEN DefaultTopics ELSE r.topics,
           IF r.sentiment \in Sentiments THEN r.sentiment ELSE "neutral")

\* parseJSONResponse after json.Unmarshal: the defaults it puts in place
ResultDefaults(r) ==
    Result(IF r.summary = <<>> THEN Chars("No summary available") ELSE r.summary,
           r.title,
           IF Len(r.topics) = 0 THEN DefaultTopics
           ELSE IF Len(r.topics) > MaxTopics THEN SubSeq(r.topics, 1, MaxTopics)
           ELSE r.topics,
           IF r.sentiment \in Sentiments THEN r.sentiment ELSE "neutral")

\* parseJSONResponse
parseJSONResponse(content) ==
    IF ~UnmarshalResult(content).ok THEN Fail(ErrInvalidJSON)
    ELSE Ok(ResultDefaults(UnmarshalResult(content).r))

\* min(summaryLength, len(words)) of the mock's summary
SummaryLength(n) ==
    Min(IF n \div SummaryDiv < SummaryMin THEN SummaryMin
        ELSE IF n \div SummaryDiv > SummaryMax THEN SummaryMax
        ELSE n \div SummaryDiv,
        n)

\* the summary the mock builds from the words of the text
SummaryOfWords(words) ==
    IF Len(words) > 0
    THEN Chars("This text discusses ")
            \o Join(SubSeq(words, 1, SummaryLength(Len(words)))) \o Chars("...")
    ELSE Chars("This text discusses ")

MockSummary(text) == SummaryOfWords(Fields(text))

\* the title the mock builds from the words of the text
TitleOfWords(words) ==
    IF Len(words) > TitleWords
    THEN Title(Join(SubSeq(words, 1, Min(TitleWords, Len(words)))))
    ELSE <<>>

MockTitle(text) == TitleOfWords(Fields(text))

\* MockProvider.Analyze: every outcome a call on text can have; ctxErrs are
\* the errors the caller's context can end with
MockAnalyze(text, ctxErrs) ==
    IF TrimSpace(text) = <<>> THEN {Fail(ErrEmptyInput)}
    ELSE {Fail(ErrLLMUnavailable)}
         \cup {Fail(e) : e \in ctxErrs}
         \cup {Ok(Result(MockSummary(text), MockTitle(text), MockTopics, s)) :
                  s \in Sentiments}

\* the results one other implementation of the Provider interface returns:
\* AnalysisResult values as they come from a backend, with more than three
\* topics and a sentiment outside the three values, or with no topics
OtherResults ==
    { Result(<<"s">>, <<>>, <<"t1", "t2", "t3", "t4">>, "mixed"),
      Result(<<"s">>, <<"A">>, <<>>, "positive") }

\* Provider.Analyze of an implementation other than the mock
OtherAnalyze(text, ctxErrs) ==
    IF TrimSpace(text) = <<>> THEN {Fail(ErrEmptyInput)}
    ELSE {Fail(ErrLLMUnavailable), Fail(ErrInvalidJSON)}
         \cup {Fail(e) : e \in ctxErrs}
         \cup {Ok(r) : r \in OtherResults}

\* h.llmProvider.Analyze(ctx, text)
Analyze(text, ctxErrs) ==
    IF provider = "mock" THEN MockAnalyze(text, ctxErrs)
    ELSE OtherAnalyze(text, ctxErrs)

----------------------------------------------------------------------------
(* analyzer: keywords and confidence *)

\* KeywordExtractor.stopWords
stopWords ==
    { "the", "be", "to", "of", "and", "a", "in", "that", "have", "i", "it",
      "for", "not", "on", "with", "he", "as", "you", "do", "at", "this",
      "but", "his", "by", "from", "they", "we", "say", "her", "she", "or",
      "an", "will", "my", "one", "all", "would", "there", "their", "what",
      "so", "up", "out", "if", "about", "who", "get", "which", "go", "me",
      "when", "make", "can", "like", "time", "no", "just", "him", "know",
      "take", "people", "into", "year", "your", "good", "some", "could",
      "them", "see", "other", "than", "then", "now", "look", "only", "come",
      "its", "over", "think", "also", "back", "after", "use", "two", "how",
      "our", "work", "first", "well", "way", "even", "new", "want",
      "because", "any", "these", "give", "day", "most", "us", "is", "was",
      "are", "been", "has", "had", "were", "said", "did", "having", "may",
      "being" }

nounSuffixes ==
    { "tion", "sion", "ment", "ness", "ity", "er", "or", "ism", "ist",
      "ance", "ence", "ship", "hood", "dom", "ing", "age", "ery", "ory",
      "cy", "ty", "ure" }

commonNouns ==
    { "data", "system", "user", "file", "code", "app", "web", "api",
      "server", "client", "database", "service", "product", "company",
      "team", "project", "email", "phone", "address", "name", "text",
      "image", "video", "audio", "document", "report", "analysis", "result",
      "model", "algorithm", "function", "method", "process", "task", "job",
      "role", "customer", "market", "business", "industry", "technology",
      "platform", "solution", "tool", "feature", "update", "version",
      "release" }

\* the handlers ask for ExtractKeywords(text, 3)
TopN == 3

\* isLikelyNoun: len(word) < 3
NounMinLen == 3

\* ExtractKeywords: len(word) > 2
KeywordLenOver == 2

\* isLikelyNoun after word = strings.ToLower(word): the word is in lower
\* case, so the test of its first character for upper case never succeeds
likelyNounLower(word) ==
    IF Len(word) < NounMinLen THEN FALSE
    ELSE IF \E suffix \in nounSuffixes : HasSuffix(word, suffix) THEN TRUE
    ELSE IF IsUpper(word[1]) THEN TRUE
    ELSE Str(word) \in commonNouns

\* KeywordExtractor.isLikelyNoun
isLikelyNoun(word) == likelyNounLower(ToLowerStr(word))

\* the maximal runs of the characters \b counts as word characters
\* (letters, digits, underscore), in order
RECURSIVE WordRunsFrom(_, _, _)
WordRunsFrom(s, cur, acc) ==
    IF s = <<>> THEN (IF cur = <<>> THEN acc ELSE Append(acc, cur))
    ELSE IF IsSeparator(Head(s))
         THEN WordRunsFrom(Tail(s), <<>>, IF cur = <<>> THEN acc ELSE Append(acc, cur))
         ELSE WordRunsFrom(Tail(s), Append(cur, Head(s)), acc)

LettersOnly(w) == \A i \in 1..Len(w) : IsLetter(w[i])

RECURSIVE SelectLetterRuns(_)
SelectLetterRuns(runs) ==
    IF runs = <<>> THEN <<>>
    ELSE (IF LettersOnly(Head(runs)) THEN <<Head(runs)>> ELSE <<>>)
         \o SelectLetterRuns(Tail(runs))

\* regexp \b[A-Za-z]+\b, FindAllString: the runs of word characters that
\* are made of letters only
FindAllWords(text) == SelectLetterRuns(WordRunsFrom(text, <<>>, <<>>))

\* the loop of extractNouns
RECURSIVE SelectNouns(_)
SelectNouns(words) ==
    IF words = <<>> THEN <<>>
    ELSE (IF isLikelyNoun(Head(words)) THEN <<Head(words)>> ELSE <<>>)
         \o SelectNouns(Tail(words))

\* KeywordExtractor.extractNouns
extractNouns(text) == SelectNouns(FindAllWords(text))

\* the test of the first loop of ExtractKeywords on a word in lower case
KeepWord(word) ==
    IF Str(word) \notin stopWords /\ Len(word) > KeywordLenOver THEN <<word>> ELSE <<>>

\* the first loop of ExtractKeywords: the words counted, one per occurrence
RECURSIVE CountedWords(_)
CountedWords(nouns) ==
    IF nouns = <<>> THEN <<>>
    ELSE KeepWord(ToLowerStr(Head(nouns))) \o CountedWords(Tail(nouns))

\* wordFreq after the first loop
WordFreq(ws) ==
    [w \in {ws[k] : k \in 1..Len(ws)} |-> Cardinality({k \in 1..Len(ws) : ws[k] = w})]

\* a less function that orders equal counts by word descending
CountLessTiesDescending(w, v, freq) ==
    \/ freq[w] > freq[v]
    \/ freq[w] = freq[v] /\ StrLess(v, w)

\* the less function of sort.Slice: count descending, then word ascending
CountLess(w, v, freq) ==
    \/ freq[w] > freq[v]
    \/ freq[w] = freq[v] /\ StrLess(w, v)

\* the word of ws that sort.Slice puts first
FirstCount(ws, freq) == CHOOSE w \in ws : \A v \in ws \ {w} : CountLess(w, v, freq)

RECURSIVE SortFrom(_, _, _)
SortFrom(ws, freq, acc) ==
    IF ws = {} THEN acc
    ELSE SortFrom(ws \ {FirstCount(ws, freq)}, freq, Append(acc, FirstCount(ws, freq)))

\* counts after sort.Slice
SortCounts(freq) == SortFrom(DOMAIN freq, freq, <<>>)

\* the last loop of ExtractKeywords: the first topN words of counts
TopWords(counts, topN) == SubSeq(counts, 1, Min(topN, Len(counts)))

\* KeywordExtractor.ExtractKeywords: what it returns when it returns
ExtractKeywords(text, topN) ==
    TopWords(SortCounts(WordFreq(CountedWords(extractNouns(text)))), topN)

\* make([]string, 0, topN) panics when topN is negative, whatever the text
MakePanics(topN) == topN < 0


\* the thresholds of CalculateConfidence: words of text, words of summary,
\* number of topics
LongTextWords == 50
MediumTextWords == 20
SummaryWordsLow == 5
SummaryWordsHigh == 50
EnoughTopics == 3

\* the bonus for a long text given from LongTextWords words on
ConfidenceOfInclusive(textLen, summaryLen, topicCount) ==
    Min(10,
        5 + (IF textLen >= LongTextWords THEN 2
             ELSE IF textLen > MediumTextWords THEN 1 ELSE 0)
          + (IF summaryLen > SummaryWordsLow /\ summaryLen < SummaryWordsHigh
             THEN 1 ELSE 0)
          + (IF topicCount >= EnoughTopics THEN 1 ELSE 0)
          + (IF /\ textLen > 0
                /\ 20 * summaryLen > textLen
                /\ 10 * summaryLen < 3 * textLen
             THEN 1 ELSE 0))

\* CalculateConfidence after the two word counts, in tenths: 0.5 and steps
\* of 0.1 and 0.2; the ratio summaryLen/textLen is compared with 0.05 and
\* 0.3 in integers
ConfidenceOf(textLen, summaryLen, topicCount) ==
    Min(10,
        5 + (IF textLen > LongTextWords THEN 2
             ELSE IF textLen > MediumTextWords THEN 1 ELSE 0)
          + (IF summaryLen > SummaryWordsLow /\ summaryLen < SummaryWordsHigh
             THEN 1 ELSE 0)
          + (IF topicCount >= EnoughTopics THEN 1 ELSE 0)
          + (IF /\ textLen > 0
                /\ 20 * summaryLen > textLen
                /\ 10 * summaryLen < 3 * textLen
             THEN 1 ELSE 0))

\* analyzer.CalculateConfidence
CalculateConfidence(text, summary, topics) ==
    IF text = <<>> \/ summary = <<>> THEN 0
    ELSE ConfidenceOf(Len(Fields(text)), Len(Fields(summary)), Len(topics))

----------------------------------------------------------------------------
(* database: the analyses table *)

\* the metadata map built by the handlers
Metadata(text, r) ==
    [title |-> r.title, topics |-> r.topics, sentiment |-> r.sentiment,
     keywords |-> ExtractKeywords(text, TopN)]

\* models.TextAnalysis as built by the handlers, without the two fields
\* read from the clock (CreatedAt, ProcessingMS)
Analysis(id, text, r) ==
    [id |-> id, text |-> text, summary |-> r.summary, metadata |-> Metadata(text, r),
     confidence |-> CalculateConfidence(text, r.summary, r.topics)]

\* id TEXT PRIMARY KEY: an insert of a stored id fails
CanInsert(table, a) == \A row \in table : row.id # a.id

\* an insert that reaches the table although the call reports an error
SaveAnalysisDespiteError(table, a, dbOk) ==
    IF CanInsert(table, a) THEN table \cup {a} ELSE table

\* an insert that replaces the stored row of the same id
SaveAnalysisOrReplace(table, a, dbOk) ==
    IF dbOk THEN {row \in table : row.id # a.id} \cup {a} ELSE table

\* DB.SaveAnalysis: the table after the call (unchanged when it fails);
\* dbOk is whether the storage engine executes the statement
SaveAnalysis(table, a, dbOk) ==
    IF dbOk /\ CanInsert(table, a) THEN table \cup {a} ELSE table

SaveFails(table, a, dbOk) == ~(dbOk /\ CanInsert(table, a))

\* models.AnalyzeResponse
AnalyzeResponse(a) ==
    [id |-> a.id, summary |-> a.summary, metadata |-> a.metadata,
     confidence |-> a.confidence]

\* models.TextAnalysis with its CreatedAt field: t is the time of creation
AnalysisAt(id, text, r, t) == [created |-> t] @@ Analysis(id, text, r)

\* json.Marshal(analysis.Metadata): the metadata column of a row; the keys
\* of a map are written in sorted order; a result without topics has the
\* nil slice, the keywords are never nil
MarshalMetadata(md) ==
    Chars("{\"keywords\":") \o MarshalStrings(md.keywords)
        \o Chars(",\"sentiment\":") \o Quote(Chars(md.sentiment))
        \o Chars(",\"title\":") \o Quote(md.title)
        \o Chars(",\"topics\":")
        \o (IF md.topics = <<>> THEN Chars("null")
            ELSE MarshalStrings([i \in 1..Len(md.topics) |-> Chars(md.topics[i])]))
        \o Chars("}")

\* what the metadata column of a stored row holds
MetadataJSON(row) == MarshalMetadata(row.metadata)

\* json.Unmarshal into a map[string]interface{}: the members of the object
\* (none for null); any other text is an error
UnmarshalMap(text) ==
    IF ~ParseJSON(text).ok THEN [ok |-> FALSE]
    ELSE IF ParseJSON(text).val.kind = "object"
    THEN [ok |-> TRUE, members |-> ParseJSON(text).val.members]
    ELSE IF ParseJSON(text).val.kind = "null" THEN [ok |-> TRUE, members |-> <<>>]
    ELSE [ok |-> FALSE]

\* m[key] of a decoded map: the value of the last member with that key
Lookup(members, key) ==
    IF \A i \in DOMAIN members : members[i].key # Chars(key) THEN [kind |-> "null"]
    ELSE members[CHOOSE i \in DOMAIN members :
                    /\ members[i].key = Chars(key)
                    /\ \A k \in DOMAIN members : k > i => members[k].key # Chars(key)].val

\* a decoded value as a string and as a list of strings (empty when it is
\* none)
GoString(v) == IF v.kind = "string" THEN v.str ELSE <<>>

GoStrings(v) ==
    IF v.kind = "array" THEN [i \in DOMAIN v.items |-> GoString(v.items[i])] ELSE <<>>

\* the four entries of a decoded metadata map
MetadataOfMap(members) ==
    [title |-> GoString(Lookup(members, "title")),
     topics |-> [i \in DOMAIN GoStrings(Lookup(members, "topics")) |->
                   Str(GoStrings(Lookup(members, "topics"))[i])],
     sentiment |-> Str(GoString(Lookup(members, "sentiment"))),
     keywords |-> GoStrings(Lookup(members, "keywords"))]

\* models.SearchQuery
SearchQuery(topic, keyword, limit, offset) ==
    [topic |-> topic, keyword |-> keyword, limit |-> limit, offset |-> offset]

RECURSIVE LikeFromExact(_, _, _, _)
\* a LIKE that tells upper case from lower case
LikeFromExact(p, s, i, j) ==
    IF i > Len(p) THEN j > Len(s)
    ELSE IF p[i] = "%" THEN \E k \in j..(Len(s) + 1) : LikeFromExact(p, s, i + 1, k)
    ELSE /\ j <= Len(s)
         /\ (p[i] = "_" \/ p[i] = s[j])
         /\ LikeFromExact(p, s, i + 1, j + 1)

RECURSIVE LikeFrom(_, _, _, _)
\* SQLite's LIKE from position i of the pattern and j of the text: % stands
\* for any run of characters, _ for any one character, and letters match
\* whatever their case
LikeFrom(p, s, i, j) ==
    IF i > Len(p) THEN j > Len(s)
    ELSE IF p[i] = "%" THEN \E k \in j..(Len(s) + 1) : LikeFrom(p, s, i + 1, k)
    ELSE /\ j <= Len(s)
         /\ (p[i] = "_" \/ ToLower(p[i]) = ToLower(s[j]))
         /\ LikeFrom(p, s, i + 1, j + 1)

\* text LIKE pattern
Like(s, p) == LikeFrom(p, s, 1, 1)

\* "%\"" + query.Topic + "\"%"
TopicPattern(topic) == <<"%", "\"">> \o topic \o <<"\"", "%">>

\* "%" + query.Keyword + "%"
KeywordPattern(keyword) == <<"%">> \o keyword \o <<"%">>

\* metadata LIKE ?
TopicCondition(row, topic) == Like(MetadataJSON(row), TopicPattern(topic))

\* (text LIKE ? OR summary LIKE ? OR metadata LIKE ?)
KeywordCondition(row, keyword) ==
    \/ Like(row.text, KeywordPattern(keyword))
    \/ Like(row.summary, KeywordPattern(keyword))
    \/ Like(MetadataJSON(row), KeywordPattern(keyword))

\* the WHERE clause of the search
Where(row, query) ==
    /\ query.topic # <<>> => TopicCondition(row, query.topic)
    /\ query.keyword # <<>> => KeywordCondition(row, query.keyword)

\* rows that share their time of creation with another row
TiedIds(rows) ==
    {r.id : r \in {x \in rows : \E y \in rows : y.id # x.id /\ y.created = x.created}}

\* ORDER BY created_at DESC leaves the order of rows of the same time open:
\* every order of the tied rows
TieBreaks(rows) ==
    {tb \in [TiedIds(rows) -> 1..Cardinality(TiedIds(rows))] :
        \A a, b \in TiedIds(rows) : a # b => tb[a] # tb[b]}

\* the number of rows that come before the row of identifier id
Before(r, rows, tb) ==
    Cardinality({x \in rows : \/ x.created > r.created
                              \/ /\ x.created = r.created
                                 /\ x.id # r.id
                                 /\ tb[x.id] < tb[r.id]})

\* ORDER BY created_at DESC
OrderByCreatedDesc(rows, tb) ==
    LET place == [id \in {r.id : r \in rows} |->
                     Before(CHOOSE r \in rows : r.id = id, rows, tb)]
    IN  [k \in 1..Cardinality(rows) |-> CHOOSE r \in rows : place[r.id] = k - 1]

\* LIMIT ? and OFFSET ?, each written only when its value is positive
LimitOffset(seq, limit, offset) ==
    IF limit > 0 /\ offset > 0 THEN SubSeq(seq, offset + 1, Min(Len(seq), offset + limit))
    ELSE IF limit > 0 THEN SubSeq(seq, 1, Min(Len(seq), limit))
    ELSE seq

\* OFFSET without LIMIT is not a statement the storage engine accepts
QueryFails(query) == query.offset > 0 /\ query.limit <= 0

\* rows.Scan and json.Unmarshal of the metadata column of one row
ScanRow(row, m) ==
    IF m.ok THEN [ok |-> TRUE, analysis |-> [row EXCEPT !.metadata = MetadataOfMap(m.members)]]
    ELSE [ok |-> FALSE]

ScanRows(seq) == [k \in DOMAIN seq |-> ScanRow(seq[k], UnmarshalMap(MetadataJSON(seq[k])))]

\* the value SearchAnalyses returns once the rows are read
SearchResult(scanned) ==
    IF \A k \in DOMAIN scanned : scanned[k].ok
    THEN [err |-> "", results |-> [k \in DOMAIN scanned |-> scanned[k].analysis]]
    ELSE [err |-> "failed to unmarshal metadata"]

\* the rows the statement returns, in each order the engine can take
SearchRows(rows, query) ==
    {SearchResult(ScanRows(LimitOffset(OrderByCreatedDesc(rows, tb),
                                       query.limit, query.offset))) :
        tb \in TieBreaks(rows)}

\* DB.SearchAnalyses: every value a call can return
DBSearchAnalyses(table, query) ==
    IF QueryFails(query) THEN {[err |-> "failed to search analyses"]}
    ELSE SearchRows({row \in table : Where(row, query)}, query)

\* a gate that lets one goroutine too many through
SemCanSendOneMore(n) == n <= SemaphoreSize

\* a send on the semaphore channel proceeds while the buffer is not full
SemCanSend(n) == n < SemaphoreSize

\* the zero value of AnalyzeResponse (ID == "")
NoResponse == [id |-> 0]

----------------------------------------------------------------------------
(* requests *)

\* no library function is called directly while the handlers serve requests
NoCall == [fn |-> "none"]
NoRet == [done |-> FALSE]

\* the texts requests carry
TextChoices == { <<>>, <<" ">>, <<"a">> }

\* a text of more than three words, for the mock's title
LongText == Chars("api is a tool")

\* bodies of POST /analyze: not JSON of the right shape, JSON without the
\* text field, JSON with a text
AnalyzeBodies ==
    {[shape |-> "malformed"], [shape |-> "ok", present |-> FALSE]}
    \cup {[shape |-> "ok", present |-> TRUE, text |-> t] :
             t \in TextChoices \cup {LongText}}

\* AnalyzeRequest after json decoding: an absent field keeps the zero value
DecodeText(body) == IF body.present THEN body.text ELSE <<>>

\* c.ShouldBindJSON(&req) for AnalyzeRequest, binding:"required,min=1"
BindAnalyzeOk(body) ==
    /\ body.shape = "ok"
    /\ DecodeText(body) # <<>>
    /\ Len(DecodeText(body)) >= 1

\* models.ErrorResponse with its HTTP status; cause is the error in Details
ErrorResponse(op, status, code, body, cause) ==
    [op |-> op, status |-> status, code |-> code, body |-> body, cause |-> cause]

\* no response written yet
NoResp == [op |-> "none", status |-> 0, code |-> ""]

\* the history of provider results with the one behind record id added
Given(g, id, r) == [x \in DOMAIN g \cup {id} |-> IF x = id THEN r ELSE g[x]]

----------------------------------------------------------------------------
(* handlers: POST /analyze *)

\* uuid.New().String(): an identifier no other call returns; n identifiers
\* were handed out before
NewID(n) == n + 1

\* the clients submit at most MaxItems texts that pass validation
OfferedAnalyze(body) == BindAnalyzeOk(body) => served < MaxItems

\* Handler.AnalyzeText, the whole request
AnalyzeText(body) ==
    /\ bpc = "idle"
    /\ OfferedAnalyze(body)
    /\ UNCHANGED <<call, ret, provider, batchVars>>
    /\ IF ~BindAnalyzeOk(body)
       THEN /\ resp' = ErrorResponse("analyze", 400, "INVALID_REQUEST", body, "bind")
            /\ UNCHANGED <<store, given, returned, served>>
       ELSE LET text == DecodeText(body) IN
            IF text = <<>>
            THEN /\ resp' = ErrorResponse("analyze", 400, "EMPTY_INPUT", body, "")
                 /\ UNCHANGED <<store, given, returned, served>>
            ELSE /\ served' = served + 1
                 /\ \E out \in Analyze(text, {DeadlineExceeded, Canceled}) :
                    IF out.err # ""
                    THEN /\ resp' = IF out.err = ErrEmptyInput
                                    THEN ErrorResponse("analyze", 400, "EMPTY_INPUT",
                                                       body, out.err)
                                    ELSE ErrorResponse("analyze", 503, "LLM_UNAVAILABLE",
                                                       body, out.err)
                         /\ UNCHANGED <<store, given, returned>>
                    ELSE LET a == Analysis(NewID(served), text, out.result) IN
                         \E dbOk \in BOOLEAN :
                            /\ store' = SaveAnalysis(store, a, dbOk)
                            /\ IF SaveFails(store, a, dbOk)
                               THEN /\ resp' = ErrorResponse("analyze", 500, "DB_ERROR",
                                                             body, "insert")
                                    /\ UNCHANGED <<given, returned>>
                               ELSE /\ resp' = [op |-> "analyze", status |-> 200,
                                                code |-> "", body |-> body,
                                                result |-> AnalyzeResponse(a)]
                                    /\ given' = Given(given, a.id, out.result)
                                    /\ returned' = returned \cup {a.id}

----------------------------------------------------------------------------
(* handlers: POST /batch-analyze *)

\* the list of n texts that carries t at position k and a one-word text
\* everywhere else
TextList(n, k, t) == [i \in 1..n |-> IF i = k THEN t ELSE <<"a">>]

\* bodies of POST /batch-analyze: not JSON of the right shape, JSON without
\* the texts field, and lists of up to MaxLen texts or of more than
\* MaxBatchSize texts whose middle text is any of the text choices
BatchBodies ==
    {[shape |-> "malformed"], [shape |-> "ok", present |-> FALSE]}
    \cup {[shape |-> "ok", present |-> TRUE,
           texts |-> TextList(n, (n + 1) \div 2, t)] :
             n \in (0..MaxLen) \cup ((MaxBatchSize + 1)..(MaxBatchSize + MaxOver)),
             t \in TextChoices}

\* c.ShouldBindJSON(&req) for BatchAnalyzeRequest,
\* binding:"required,min=1,dive,min=1"
BindBatchOk(body) ==
    /\ body.shape = "ok"
    /\ body.present
    /\ Len(body.texts) >= 1
    /\ \A i \in 1..Len(body.texts) : Len(body.texts[i]) >= 1

\* len(req.Texts) == 0
NoTexts(ts) == Len(ts) = 0

\* a size check that is off by one
TooManyTextsOffByOne(ts) == Len(ts) > MaxBatchSize + 1

\* len(req.Texts) > 10
TooManyTexts(ts) == Len(ts) > MaxBatchSize

\* the clients submit at most MaxItems texts in lists of a valid size
OfferedBatch(body) ==
    (body.shape = "ok" /\ body.present /\ Len(body.texts) <= MaxBatchSize)
        => served + Len(body.texts) <= MaxItems

\* index i of the Go slices is position i + 1 of the sequences
Indices == 0..(Len(texts) - 1)

\* BatchError; of the message, the part before the error's own text
BatchError(index, msg) == [index |-> index, error |-> msg]

\* an append without the mutex: the element written over the one a
\* concurrent append has just stored
AppendErrorUnlocked(es, e) ==
    IF es = <<>> THEN <<e>> ELSE [es EXCEPT ![Len(es)] = e]

\* errorsMu.Lock(); errors = append(errors, e); errorsMu.Unlock()
AppendError(es, e) == Append(es, e)

\* the first element of rs that is still the zero value
FirstFree(rs) == CHOOSE k \in 1..Len(rs) :
                    /\ rs[k] = NoResponse
                    /\ \A j \in 1..(k - 1) : rs[j] # NoResponse

\* results filled in the order the goroutines finish
PutResultInFinishOrder(rs, index, a) ==
    [rs EXCEPT ![FirstFree(rs)] = [origin |-> index, id |-> a.id,
                                   summary |-> a.summary, metadata |-> a.metadata,
                                   confidence |-> a.confidence]]

\* results[index] = models.AnalyzeResponse{...}; origin records the
\* goroutine that wrote the element
PutResult(rs, index, a) ==
    [rs EXCEPT ![index + 1] = [origin |-> index, id |-> a.id, summary |-> a.summary,
                               metadata |-> a.metadata, confidence |-> a.confidence]]

\* Handler.BatchAnalyzeText up to the launch loop: the request is rejected,
\* or the slices, the wait group and the semaphore are made
BatchAccept(body) ==
    /\ bpc = "idle"
    /\ OfferedBatch(body)
    /\ UNCHANGED <<call, ret, provider, store, given, returned>>
    /\ IF ~BindBatchOk(body)
       THEN /\ resp' = ErrorResponse("batch", 400, "INVALID_REQUEST", body, "bind")
            /\ UNCHANGED <<batchVars, served>>
       ELSE IF NoTexts(body.texts)
       THEN /\ resp' = ErrorResponse("batch", 400, "EMPTY_INPUT", body, "")
            /\ UNCHANGED <<batchVars, served>>
       ELSE IF TooManyTexts(body.texts)
       THEN /\ resp' = ErrorResponse("batch", 400, "BATCH_SIZE_EXCEEDED", body, "")
            /\ UNCHANGED <<batchVars, served>>
       ELSE /\ served' = served + Len(body.texts)
            /\ idBase' = served
            /\ bpc' = "launch"
            /\ texts' = body.texts
            /\ launched' = 0
            /\ wg' = 0
            /\ sem' = 0
            /\ tpc' = [i \in 1..Len(body.texts) |-> "new"]
            /\ results' = [i \in 1..Len(body.texts) |-> NoResponse]
            /\ errors' = <<>>
            /\ resp' = NoResp

\* one iteration of the launch loop: wg.Add(1); go func(...)
BatchLaunch ==
    /\ bpc = "launch"
    /\ launched < Len(texts)
    /\ wg' = wg + 1
    /\ tpc' = [tpc EXCEPT ![launched + 1] = "start"]
    /\ launched' = launched + 1
    /\ bpc' = IF launched + 1 = Len(texts) THEN "wait" ELSE "launch"
    /\ UNCHANGED <<call, ret, provider, store, given, returned, served, texts, sem, results,
                   errors, idBase, resp>>

\* semaphore <- struct{}{} blocks while the channel is full; then the
\* goroutine checks its text and calls the provider
TaskAcquire(i) ==
    /\ tpc[i + 1] = "start"
    /\ SemCanSend(sem)
    /\ sem' = sem + 1
    /\ IF texts[i + 1] = <<>>
       THEN /\ errors' = AppendError(errors, BatchError(i, "Text cannot be empty"))
            /\ tpc' = [tpc EXCEPT ![i + 1] = "exit"]
       ELSE /\ tpc' = [tpc EXCEPT ![i + 1] = "analyze"]
            /\ UNCHANGED errors
    /\ UNCHANGED <<call, ret, provider, store, given, returned, served, bpc, texts, launched,
                   wg, results, idBase, resp>>

\* h.llmProvider.Analyze returns; on a result the record is built and
\* saved and the goroutine writes its own element of results; every
\* failure is appended to errors
TaskFinish(i) ==
    /\ tpc[i + 1] = "analyze"
    /\ tpc' = [tpc EXCEPT ![i + 1] = "exit"]
    /\ \E out \in Analyze(texts[i + 1], {DeadlineExceeded}) :
          IF out.err # ""
          THEN /\ errors' = AppendError(errors, BatchError(i, "Analysis failed"))
               /\ UNCHANGED <<store, given, results>>
          ELSE LET a == Analysis(NewID(idBase + i), texts[i + 1], out.result) IN
               \E dbOk \in BOOLEAN :
                 /\ store' = SaveAnalysis(store, a, dbOk)
                 /\ IF SaveFails(store, a, dbOk)
                    THEN /\ errors' = AppendError(errors, BatchError(i, "Failed to save"))
                         /\ UNCHANGED <<given, results>>
                    ELSE /\ results' = PutResult(results, i, a)
                         /\ given' = Given(given, a.id, out.result)
                         /\ UNCHANGED errors
    /\ UNCHANGED <<call, ret, provider, returned, served, bpc, texts, launched, wg, sem,
                   idBase, resp>>

\* a goroutine that returns without taking its token out of the channel
TaskReturnKeepsSlot(i) ==
    /\ tpc[i + 1] = "exit"
    /\ tpc' = [tpc EXCEPT ![i + 1] = "wgdone"]
    /\ UNCHANGED <<call, ret, provider, store, given, returned, served, bpc, texts, launched,
                   wg, sem, results, errors, idBase, resp>>

\* the goroutine returns, first deferred call: <-semaphore
TaskRelease(i) ==
    /\ tpc[i + 1] = "exit"
    /\ sem' = sem - 1
    /\ tpc' = [tpc EXCEPT ![i + 1] = "wgdone"]
    /\ UNCHANGED <<call, ret, provider, store, given, returned, served, bpc, texts, launched,
                   wg, results, errors, idBase, resp>>

\* the goroutine returns, last deferred call: wg.Done()
TaskDone(i) ==
    /\ tpc[i + 1] = "wgdone"
    /\ wg' = wg - 1
    /\ tpc' = [tpc EXCEPT ![i + 1] = "done"]
    /\ UNCHANGED <<call, ret, provider, store, given, returned, served, bpc, texts, launched,
                   sem, results, errors, idBase, resp>>

\* the loop after wg.Wait(): the elements of results with a non-empty ID
RECURSIVE SuccessResults(_)
SuccessResults(rs) ==
    IF rs = <<>> THEN <<>>
    ELSE IF Head(rs).id # NoResponse.id
         THEN <<Head(rs)>> \o SuccessResults(Tail(rs))
         ELSE SuccessResults(Tail(rs))

\* a wait that returns while one goroutine is still counted
WaitReturnsEarly(n) == n <= 1

\* wg.Wait() returns when the counter is zero
WaitReturns(n) == n = 0

\* wg.Wait() returns, the response is written and the handler's locals go
BatchRespond ==
    /\ bpc = "wait"
    /\ WaitReturns(wg)
    /\ bpc' = "idle"
    /\ resp' = [op |-> "batch", status |-> 200, code |-> "",
                body |-> [shape |-> "ok", present |-> TRUE, texts |-> texts],
                results |-> SuccessResults(results), failed |-> errors]
    /\ texts' = <<>>
    /\ launched' = 0
    /\ tpc' = <<>>
    /\ results' = <<>>
    /\ errors' = <<>>
    /\ idBase' = 0
    /\ returned' = returned \cup {SuccessResults(results)[k].id :
                                     k \in 1..Len(SuccessResults(results))}
    /\ UNCHANGED <<call, ret, provider, store, given, served, wg, sem>>

----------------------------------------------------------------------------

Init ==
    /\ provider \in {"mock", "other"}
    /\ store = {}
    /\ given = <<>>
    /\ returned = {}
    /\ served = 0
    /\ bpc = "idle"
    /\ texts = <<>>
    /\ launched = 0
    /\ wg = 0
    /\ sem = 0
    /\ tpc = <<>>
    /\ results = <<>>
    /\ errors = <<>>
    /\ idBase = 0
    /\ resp = NoResp
    /\ call = NoCall
    /\ ret = NoRet

Next ==
    \/ \E body \in AnalyzeBodies : AnalyzeText(body)
    \/ \E body \in BatchBodies : BatchAccept(body)
    \/ BatchLaunch
    \/ \E i \in Indices : TaskAcquire(i)
    \/ \E i \in Indices : TaskFinish(i)
    \/ \E i \in Indices : TaskRelease(i)
    \/ \E i \in Indices : TaskDone(i)
    \/ BatchRespond

Spec == Init /\ [][Next]_vars

\* the steps of the goroutine of item i, from semaphore <- struct{}{} to
\* wg.Done()
TaskStep(i) ==
    /\ i \in Indices
    /\ TaskAcquire(i) \/ TaskFinish(i) \/ TaskRelease(i) \/ TaskDone(i)

\* the service started with a provider other than the mock
LiveInit == Init /\ provider = "other"

\* The service under the Go scheduler:
\* the handler's goroutine and every item goroutine that can take a step
\* eventually takes one.  A goroutine waiting to send on the full channel
\* cannot take a step; a provider call and a store write in progress can,
\* they return.
LiveSpec ==
    /\ LiveInit
    /\ [][Next]_vars
    /\ WF_vars(BatchLaunch \/ BatchRespond)
    /\ \A i \in 0..(MaxItems - 1) : WF_vars(TaskStep(i))

----------------------------------------------------------------------------
(* the analyses table under direct calls of SaveAnalysis and SearchAnalyses *)

\* number of distinct identifiers the saved records carry
MaxIds == 2

\* number of distinct times of creation
MaxTime == 2

\* the text and provider result behind the saved records: a text whose
\* only keyword is "system" with the mock's result, a text with characters
\* the JSON encoder escapes, long enough for the mock to give it a title,
\* and the first text with a result that has no topics
SavedPairs ==
    {<<text, Result(MockSummary(text), MockTitle(text), MockTopics, sentiment)>> :
        <<text, sentiment>> \in {<<Chars("The system helps"), "neutral">>,
                                 <<Chars("ask <api> \"now\" ok"), "positive">>}}
    \cup {<<Chars("The system helps"), Result(<<"s">>, <<"A">>, <<>>, "positive")>>}

\* the records the callers save
SavedRecords ==
    {AnalysisAt(id, p[1], p[2], t) : id \in 1..MaxIds, p \in SavedPairs, t \in 1..MaxTime}

\* the queries the callers search with
SearchQueries ==
    {SearchQuery(topic, keyword, limit, offset) :
        topic \in {<<>>, Chars("technology"), Chars("system"), Chars("Positive"),
                   Chars("%")},
        keyword \in {<<>>, Chars("api"), Chars("SYSTEM"), Chars("s_stem")},
        limit \in {-1, 1, 50}, offset \in {0, 1}}

\* db.SaveAnalysis(a), the whole call
CallSaveAnalysis(a, dbOk) ==
    /\ call = NoCall
    /\ call' = [fn |-> "SaveAnalysis", analysis |-> a]
    /\ store' = SaveAnalysis(store, a, dbOk)
    /\ ret' = [done |-> TRUE,
               err |-> IF SaveFails(store, a, dbOk) THEN "failed to insert analysis"
                       ELSE ""]
    /\ UNCHANGED <<provider, given, returned, served, batchVars, resp>>

\* db.SearchAnalyses(query), the whole call
CallSearchAnalyses(query) ==
    /\ call = NoCall
    /\ call' = [fn |-> "SearchAnalyses", query |-> query]
    /\ \E out \in DBSearchAnalyses(store, query) : ret' = [done |-> TRUE] @@ out
    /\ UNCHANGED <<provider, store, given, returned, served, batchVars, resp>>

\* the caller takes the value returned and goes on
Return ==
    /\ call # NoCall
    /\ call' = NoCall
    /\ ret' = NoRet
    /\ UNCHANGED <<provider, store, given, returned, served, batchVars, resp>>

StoreInit ==
    /\ Init
    /\ provider = "mock"

StoreNext ==
    \/ \E a \in SavedRecords, dbOk \in BOOLEAN : CallSaveAnalysis(a, dbOk)
    \/ \E query \in SearchQueries : CallSearchAnalyses(query)
    \/ Return

StoreSpec == StoreInit /\ [][StoreNext]_vars

----------------------------------------------------------------------------
(* handlers: GET /search *)

\* form:"limit,default=50"
FormDefaultLimit == 50

\* the limit put in place of 0, and the largest limit passed on
DefaultLimit == 50
MaxLimit == 100

\* number of stored records beyond MaxLimit
MaxExtra == 1

\* a query parameter that is an integer; one left out has the kind "absent"
\* and a text that is no integer the kind "text"
IntParam(n) == [kind |-> "int", val |-> n]

\* the query string of a request
SearchRequest(topic, keyword, limit, offset) ==
    [topic |-> topic, keyword |-> keyword, limit |-> limit, offset |-> offset]

\* c.ShouldBindQuery(&query): fails on a limit or offset that is no integer
BindQueryOk(req) == req.limit.kind # "text" /\ req.offset.kind # "text"

ParamOr(param, default) == IF param.kind = "int" THEN param.val ELSE default

\* models.SearchQuery as bound: a parameter left out takes its default
BindQuery(req) ==
    SearchQuery(req.topic, req.keyword, ParamOr(req.limit, FormDefaultLimit),
                ParamOr(req.offset, 0))

\* if query.Limit == 0 { query.Limit = 50 }; if query.Limit > 100
\* { query.Limit = 100 }
NormalLimit(limit) ==
    IF limit = 0 THEN (IF DefaultLimit > MaxLimit THEN MaxLimit ELSE DefaultLimit)
    ELSE IF limit > MaxLimit THEN MaxLimit
    ELSE limit

NormalQuery(query) == [query EXCEPT !.limit = NormalLimit(query.limit)]

\* the response to a search once the database call returned out
SearchResponse(req, query, out) ==
    IF out.err # "" THEN ErrorResponse("search", 500, "DB_ERROR", req, out.err)
    ELSE [op |-> "search", status |-> 200, code |-> "", body |-> req,
          results |-> out.results, count |-> Len(out.results), query |-> query]

\* Handler.SearchAnalyses, the whole request
SearchAnalyses(req) ==
    /\ IF ~BindQueryOk(req)
       THEN resp' = ErrorResponse("search", 400, "INVALID_REQUEST", req, "bind")
       ELSE \E out \in DBSearchAnalyses(store, NormalQuery(BindQuery(req))) :
               resp' = SearchResponse(req, NormalQuery(BindQuery(req)), out)
    /\ UNCHANGED <<call, ret, provider, store, given, returned, served, batchVars>>

\* the client reads the response before it sends its next request
Receive ==
    /\ resp # NoResp
    /\ resp' = NoResp
    /\ UNCHANGED <<call, ret, provider, store, given, returned, served, batchVars>>

\* the tables the searches run on: empty, one record, more records than the
\* default limit and more than the largest limit; the records have one
\* short text and each was created after the one before
SearchedTables ==
    {{AnalysisAt(id, <<"a">>, Result(<<"s">>, <<"A">>, <<>>, "positive"), id) : id \in 1..n} :
        n \in {0, 1, DefaultLimit + 1, MaxLimit + MaxExtra}}

\* the requests the clients send
SearchRequests ==
    {SearchRequest(<<>>, keyword, limit, offset) :
        keyword \in {<<>>, <<"a">>, <<"z">>},
        limit \in {[kind |-> "absent"], [kind |-> "text"]} \cup
                  {IntParam(n) : n \in {-1, 0, 1, MaxLimit, MaxLimit + 1}},
        offset \in {[kind |-> "absent"], IntParam(-1), IntParam(1),
                    IntParam(DefaultLimit + 10)}}

SearchInit ==
    /\ store \in SearchedTables
    /\ provider = "mock"
    /\ given = <<>>
    /\ returned = {}
    /\ served = 0
    /\ bpc = "idle"
    /\ texts = <<>>
    /\ launched = 0
    /\ wg = 0
    /\ sem = 0
    /\ tpc = <<>>
    /\ results = <<>>
    /\ errors = <<>>
    /\ idBase = 0
    /\ resp = NoResp
    /\ call = NoCall
    /\ ret = NoRet

SearchNext ==
    \/ \E req \in SearchRequests : resp = NoResp /\ SearchAnalyses(req)
    \/ Receive

SearchSpec == SearchInit /\ [][SearchNext]_vars

----------------------------------------------------------------------------
(* properties of the batch handler *)

\* the item goroutines whose provider call has been made and has not returned
InFlight == {i \in Indices : tpc[i + 1] = "analyze"}

\* C1: while a batch is served, the number of provider Analyze calls in
\* flight at the same moment is never more than 3
C1_AtMostThreeInFlight == Cardinality(InFlight) <= SemaphoreSize

\* three calls in flight and another goroutine waiting at the gate
C1_Witness ==
    /\ Cardinality(InFlight) = SemaphoreSize
    /\ \E i \in Indices : tpc[i + 1] = "start"

\* a batch response was written
BatchResponded == resp.op = "batch" /\ resp.status = 200

\* how many entries of the sequence es satisfy P
Count(es, P(_)) == Cardinality({k \in 1..Len(es) : P(es[k])})

\* C2: a batch response accounts for every index of the request exactly
\* once: each index is the origin of exactly one success entry or of exactly
\* one failure entry, so successes + failures = n
C2_EveryIndexOnce ==
    BatchResponded =>
        /\ \A i \in 0..(Len(resp.body.texts) - 1) :
              LET IsI(e) == e.origin = i
                  HasI(e) == e.index = i
              IN Count(resp.results, IsI) + Count(resp.failed, HasI) = 1
        /\ Len(resp.results) + Len(resp.failed) = Len(resp.body.texts)

\* a response to MaxItems texts with a success, a provider failure and a
\* store failure in it
C2_Witness ==
    /\ BatchResponded
    /\ Len(resp.body.texts) = MaxItems
    /\ Len(resp.results) >= 1
    /\ \E k \in 1..Len(resp.failed) : resp.failed[k].error = "Analysis failed"
    /\ \E k \in 1..Len(resp.failed) : resp.failed[k].error = "Failed to save"

\* C3: when the batch response is written, the launch loop has ended and
\* every item goroutine of the batch has finished; no response is written
\* before
C3_ResponseAfterAllTasks ==
    [][(bpc # "idle" /\ resp' # resp) =>
          /\ launched = Len(texts)
          /\ \A i \in Indices : tpc[i + 1] = "done"]_vars

\* the handler is blocked in wg.Wait() with goroutines finished, one
\* running and no response written
C3_Witness ==
    /\ bpc = "wait"
    /\ resp = NoResp
    /\ \E i \in Indices : tpc[i + 1] = "done"
    /\ \E i \in Indices : tpc[i + 1] = "analyze"

\* C4: the success list of a batch response holds the successful items in
\* ascending order of their index in the request; a failed index is not in
\* it and no entry is an empty placeholder
C4_SuccessesInRequestOrder ==
    BatchResponded =>
        /\ \A j, k \in 1..Len(resp.results) :
              j < k => resp.results[j].origin < resp.results[k].origin
        /\ \A k \in 1..Len(resp.results) :
              /\ resp.results[k].id # NoResponse.id
              /\ \A f \in 1..Len(resp.failed) :
                    resp.failed[f].index # resp.results[k].origin

\* a response in which the goroutine of a later index failed before the
\* goroutine of an earlier index, with successes on both sides of a failure
C4_Witness ==
    /\ BatchResponded
    /\ Len(resp.failed) >= 2
    /\ resp.failed[1].index > resp.failed[2].index
    /\ \E j, k \in 1..Len(resp.results) :
          \E f \in 1..Len(resp.failed) :
             /\ resp.results[j].origin < resp.failed[f].index
             /\ resp.failed[f].index < resp.results[k].origin

\* the number of texts a request body carries
TextCount(body) == IF body.shape = "ok" /\ body.present THEN Len(body.texts) ELSE 0

\* C5: a batch request with 0 texts or with more than 10 texts is rejected
\* before any work starts: no goroutine is started, no provider call is made
\* and the store is left as it was
C5_BadSizeRejectedWithoutWork ==
    [][\A body \in BatchBodies :
          (/\ body.shape = "ok"
           /\ TextCount(body) = 0 \/ TextCount(body) > MaxBatchSize
           /\ BatchAccept(body))
          => /\ resp'.status = 400
             /\ bpc' = "idle"
             /\ store' = store
             /\ UNCHANGED batchVars]_vars

\* a request with more than 10 non-empty texts was rejected while the
\* store holds records
C5_Witness ==
    /\ resp.op = "batch"
    /\ resp.status = 400
    /\ TextCount(resp.body) > MaxBatchSize
    /\ \A k \in 1..Len(resp.body.texts) : resp.body.texts[k] # <<>>
    /\ store # {}
    /\ bpc = "idle"

\* the request body carries a list of texts
HasTexts(body) == body.shape = "ok" /\ body.present

\* C6: the code of a batch rejection is EMPTY_INPUT when the request
\* carries 0 texts and BATCH_SIZE_EXCEEDED when it carries more than 10
C6_RejectionCodeBySize ==
    (resp.op = "batch" /\ resp.status = 400 /\ HasTexts(resp.body)) =>
        /\ Len(resp.body.texts) = 0 => resp.code = "EMPTY_INPUT"
        /\ Len(resp.body.texts) > MaxBatchSize => resp.code = "BATCH_SIZE_EXCEEDED"

\* C7: a batch of 1 to 10 texts with an empty text in it is not rejected as
\* a whole: the response is a batch result, each empty text is the origin
\* of exactly one failure entry and of no success, and every other text is
\* the origin of an entry
C7_EmptyItemFailsAlone ==
    (/\ resp.op = "batch"
     /\ HasTexts(resp.body)
     /\ Len(resp.body.texts) \in 1..MaxBatchSize
     /\ \E k \in 1..Len(resp.body.texts) : resp.body.texts[k] = <<>>)
    => /\ resp.status = 200
       /\ \A k \in 1..Len(resp.body.texts) :
             LET IsK(e) == e.origin = k - 1
                 HasK(e) == e.index = k - 1
             IN IF resp.body.texts[k] = <<>>
                THEN Count(resp.failed, HasK) = 1 /\ Count(resp.results, IsK) = 0
                ELSE Count(resp.failed, HasK) + Count(resp.results, IsK) = 1

\* the request body of POST /analyze carries no text, or an empty or
\* all-whitespace one
BlankText(body) == body.shape = "ok" /\ TrimSpace(DecodeText(body)) = <<>>

\* C8: analyze-one reports each failure with the code of its class:
\* EMPTY_INPUT for a missing, empty or all-whitespace text, LLM_UNAVAILABLE
\* for every other provider failure, DB_ERROR for a failed store write, and
\* INVALID_REQUEST only for a malformed request
C8_CodeOfTheFailureClass ==
    (resp.op = "analyze" /\ resp.status # 200) =>
        /\ BlankText(resp.body) => resp.code = "EMPTY_INPUT"
        /\ resp.cause \in {ErrLLMUnavailable, ErrInvalidJSON, DeadlineExceeded, Canceled}
              => resp.code = "LLM_UNAVAILABLE"
        /\ resp.cause = "insert" => resp.code = "DB_ERROR"
        /\ resp.code = "INVALID_REQUEST" => resp.body.shape = "malformed"

----------------------------------------------------------------------------
(* properties of the stored records *)

StoredIds == {row.id : row \in store}

\* the ids of the successes of the batch in progress, not yet returned
PendingIds == {results[k].id : k \in 1..Len(results)} \ {NoResponse.id}

\* the success entries of the response written last
RespSuccesses ==
    IF resp.op = "analyze" /\ resp.status = 200 THEN {resp.result}
    ELSE IF BatchResponded
         THEN {AnalyzeResponse(resp.results[k]) : k \in 1..Len(resp.results)}
         ELSE {}

\* C9: after any sequence of calls the stored records are exactly the
\* successful pipeline runs: every success returned to a caller has exactly
\* one record with its id (and its summary, metadata and confidence), and
\* no record exists for an item that was rejected or that failed at the
\* provider or at the store.  The calls are those that reach SaveAnalysis,
\* the only statement that writes the table: analyze-one and batch.
C9_StoreIsTheSuccesses ==
    /\ \A id \in returned : Cardinality({row \in store : row.id = id}) = 1
    /\ \A e \in RespSuccesses :
          \E row \in store : AnalyzeResponse(row) = e
    /\ StoredIds \subseteq (returned \cup PendingIds)
    /\ bpc = "idle" => Cardinality(store) = Cardinality(returned)
    /\ \A k \in 1..Len(errors) : NewID(idBase + errors[k].index) \notin StoredIds

\* a batch answered with a success and a failure after an earlier call
\* stored a record too
C9_Witness ==
    /\ BatchResponded
    /\ Len(resp.results) >= 1
    /\ Len(resp.failed) >= 1
    /\ Cardinality(store) > Len(resp.results)

\* C10: every stored record has at most 3 topics (the provider's first 3
\* when it returned more, the default 3 when it returned none) and a
\* sentiment among positive, neutral, negative
C10_StoredMetadataNormalized ==
    \A row \in store :
        LET g == given[row.id] IN
        /\ Len(row.metadata.topics) <= MaxTopics
        /\ Len(g.topics) > MaxTopics
              => row.metadata.topics = SubSeq(g.topics, 1, MaxTopics)
        /\ g.topics = <<>> => row.metadata.topics = DefaultTopics
        /\ row.metadata.sentiment \in Sentiments

----------------------------------------------------------------------------
(* the functions of the analyzer and of the llm package under direct calls *)

\* largest number of words of a text given to ExtractKeywords
MaxWords == 3

\* largest topN given to ExtractKeywords
MaxTopN == 3

\* the calls of ExtractKeywords: every text of at most MaxWords words among
\* nouns of the vocabulary in both cases, a stop word with a noun suffix and
\* a word that is no noun, with every topN from -1 to MaxTopN
KeywordCalls ==
    {[fn |-> "ExtractKeywords", text |-> Join(ws), topN |-> n] :
        ws \in UNION {[1..k -> {Chars(w) : w \in {"data", "Data", "user", "api",
                                                  "for", "run"}}] : k \in 0..MaxWords},
        n \in -1..MaxTopN}

\* how far the word counts given to CalculateConfidence go past its
\* thresholds
MaxPast == 1

\* a text of n one-letter words separated by single spaces; for n = 0 a
\* single space
TextOfWords(n) ==
    IF n = 0 THEN <<" ">>
    ELSE [i \in 1..(2 * n - 1) |-> IF i % 2 = 1 THEN "a" ELSE " "]

\* the calls of CalculateConfidence: the empty text, the empty summary, and
\* texts and summaries whose word counts are around the thresholds of the
\* bonuses and where the ratio is 0.05 and 0.3 exactly, with 0, 2 and 3
\* topics
ConfidenceCalls ==
    {[fn |-> "CalculateConfidence", text |-> t, summary |-> sm, topics |-> tp] :
        t \in {<<>>} \cup
              {TextOfWords(n) : n \in {0, 1} \cup
                  {w + d : w \in {MediumTextWords, LongTextWords}, d \in 0..MaxPast}},
        sm \in {<<>>} \cup
               {TextOfWords(n) : n \in {0, 1, 3, 15} \cup
                   {SummaryWordsLow + d : d \in 0..MaxPast} \cup
                   {SummaryWordsHigh - d : d \in 0..MaxPast}},
        tp \in {<<>>, <<"a", "b">>, <<"a", "b", "c">>}}

\* the calls of isLikelyNoun: the words of the test, and words in both
\* cases with and without a suffix, in and out of the vocabulary
NounCalls ==
    {[fn |-> "isLikelyNoun", word |-> Chars(w)] :
        w \in {"organization", "teacher", "Teacher", "running", "data", "Data",
               "api", "run", "Run", "zebra", "Zebra", "is", "at", "go", "Go",
               "Al", "a", "A"}}


\* ke.ExtractKeywords(text, topN), the whole call
CallExtractKeywords ==
    /\ call.fn = "ExtractKeywords"
    /\ ret = NoRet
    /\ ret' = IF MakePanics(call.topN) THEN [done |-> TRUE, panic |-> TRUE]
               ELSE [done |-> TRUE, panic |-> FALSE,
                     value |-> ExtractKeywords(call.text, call.topN)]
    /\ UNCHANGED <<call, provider, store, given, returned, served, batchVars, resp>>

\* how many topics more than MaxTopics a reply of the provider lists
MaxMoreTopics == 2

\* a field of a reply: left out, or written with a value
Missing == [has |-> FALSE, val |-> <<>>]
Has(val) == [has |-> TRUE, val |-> val]

\* the JSON object a provider writes for the fields it has, in the order
\* summary, title, topics, sentiment
ReplyText(reply) ==
    <<"{">>
    \o CommaJoin(
          (IF reply.summary.has
           THEN <<Chars("\"summary\": ") \o Quote(reply.summary.val)>> ELSE <<>>)
          \o (IF reply.title.has
              THEN <<Chars("\n\"title\": ") \o Quote(reply.title.val)>> ELSE <<>>)
          \o (IF reply.topics.has
              THEN <<Chars(" \"topics\": ")
                     \o MarshalStrings([i \in DOMAIN reply.topics.val |->
                                          Chars(reply.topics.val[i])])>>
              ELSE <<>>)
          \o (IF reply.sentiment.has
              THEN <<Chars("\t\"sentiment\" : ") \o Quote(reply.sentiment.val)>>
              ELSE <<>>))
    \o <<"}">>

\* the replies with the fields of an AnalysisResult: each field left out or
\* written, the summary empty, plain and with characters that are escaped,
\* up to MaxTopics + MaxMoreTopics topics, the three sentiments and others
Replies ==
    {Result(summary, title, topics, sentiment) :
        summary \in {Missing, Has(<<>>), Has(Chars("Summary")), Has(Chars("a \"b\" <c>"))},
        title \in {Missing, Has(Chars("Test Title"))},
        topics \in {Missing} \cup
                   {Has(SubSeq(<<"t1", "t2", "t3", "t4", "t5", "t6", "t7">>, 1, n)) :
                       n \in {0, 1} \cup (MaxTopics..(MaxTopics + MaxMoreTopics))},
        sentiment \in {Missing} \cup
                      {Has(Chars(w)) : w \in {"positive", "neutral", "negative",
                                              "invalid", "Positive", ""}}}

\* the text of every such reply
ReplyTexts == [reply \in Replies |-> ReplyText(reply)]

\* replies json.Unmarshal does not decode into an AnalysisResult: no JSON,
\* nothing, text after the value, a value that is no object, a field of the
\* wrong type
BadReplies ==
    {Chars("{invalid json}"), <<>>, Chars("{} x"), Chars("[]"), Chars("\"text\""),
     Chars("{\"summary\": 5}"), Chars("{\"topics\": \"t1\"}"),
     Chars("{\"topics\": [\"t1\", 2], \"summary\": \"S\"}")}

\* other replies it decodes, each with the fields it has: null, keys in
\* upper case beside an unknown key, fields that are null, a repeated key
OtherReplies ==
    {[text |-> Chars("null"), reply |-> Result(Missing, Missing, Missing, Missing)],
     [text |-> Chars(" {\"Summary\": \"S\", \"x\": {\"a\": [1, true]}, \"TOPICS\": [\"a\"]} "),
      reply |-> Result(Has(<<"S">>), Missing, Has(<<"a">>), Missing)],
     [text |-> Chars("{\"summary\": null, \"topics\": null, \"sentiment\": \"negative\"}"),
      reply |-> Result(Missing, Missing, Missing, Has(Chars("negative")))],
     [text |-> Chars("{\"title\": \"A\", \"title\": \"B\"}"),
      reply |-> Result(Missing, Has(<<"B">>), Missing, Missing)]}

\* the calls of parseJSONResponse
ParseCalls ==
    {[fn |-> "parseJSONResponse", content |-> text] :
        text \in {ReplyTexts[reply] : reply \in Replies} \cup BadReplies
                 \cup {o.text : o \in OtherReplies}}

\* parseJSONResponse(content), the whole call
CallParseJSONResponse ==
    /\ call.fn = "parseJSONResponse"
    /\ ret = NoRet
    /\ ret' = [done |-> TRUE, panic |-> FALSE, value |-> parseJSONResponse(call.content)]
    /\ UNCHANGED <<call, provider, store, given, returned, served, batchVars, resp>>

\* CalculateConfidence(text, summary, topics), the whole call
CallCalculateConfidence ==
    /\ call.fn = "CalculateConfidence"
    /\ ret = NoRet
    /\ ret' = [done |-> TRUE, panic |-> FALSE,
               value |-> CalculateConfidence(call.text, call.summary, call.topics)]
    /\ UNCHANGED <<call, provider, store, given, returned, served, batchVars, resp>>

\* ke.isLikelyNoun(word), the whole call
CallIsLikelyNoun ==
    /\ call.fn = "isLikelyNoun"
    /\ ret = NoRet
    /\ ret' = [done |-> TRUE, panic |-> FALSE, value |-> isLikelyNoun(call.word)]
    /\ UNCHANGED <<call, provider, store, given, returned, served, batchVars, resp>>

FnInit ==
    /\ call \in KeywordCalls \cup ConfidenceCalls \cup NounCalls \cup ParseCalls
    /\ ret = NoRet
    /\ provider = "mock"
    /\ store = {}
    /\ given = <<>>
    /\ returned = {}
    /\ served = 0
    /\ bpc = "idle"
    /\ texts = <<>>
    /\ launched = 0
    /\ wg = 0
    /\ sem = 0
    /\ tpc = <<>>
    /\ results = <<>>
    /\ errors = <<>>
    /\ idBase = 0
    /\ resp = NoResp

FnNext ==
    \/ CallExtractKeywords
    \/ CallCalculateConfidence
    \/ CallIsLikelyNoun
    \/ CallParseJSONResponse

FnSpec == FnInit /\ [][FnNext]_vars

----------------------------------------------------------------------------
(* properties of the analyses table under direct calls *)

SaveCalled == call.fn = "SaveAnalysis"
SearchCalled == call.fn = "SearchAnalyses"

\* C11: the table is append-only with unique ids.  A SaveAnalysis of a
\* record whose id is not stored adds exactly that record when it succeeds
\* and nothing when the engine fails; a SaveAnalysis of a record whose id is
\* stored fails and leaves the table as it was; SearchAnalyses leaves the
\* table as it was; after every step no two rows share an id and every row
\* stored before is still there unchanged.
C11_AppendOnlyUniqueIds ==
    [][/\ SaveCalled' =>
            IF \E row \in store : row.id = call'.analysis.id
            THEN ret'.err # "" /\ store' = store
            ELSE IF ret'.err = "" THEN store' = store \cup {call'.analysis}
            ELSE store' = store
       /\ SearchCalled' => store' = store
       /\ \A x, y \in store' : x.id = y.id => x = y
       /\ store \subseteq store']_vars

\* a second record with a stored id was refused while the table holds two
\* rows
C11_Witness ==
    /\ SaveCalled
    /\ ret.err # ""
    /\ Cardinality(store) = 2
    /\ \E row \in store : row.id = call.analysis.id /\ row # call.analysis

\* a search without filters whose limit and offset leave out no row
CoversStore(query) ==
    /\ query.topic = <<>>
    /\ query.keyword = <<>>
    /\ query.offset <= 0
    /\ query.limit <= 0 \/ query.limit >= Cardinality(store)

\* the fields of the returned record a are those of the saved record row
SameFields(a, row) ==
    /\ a.id = row.id
    /\ a.text = row.text
    /\ a.summary = row.summary
    /\ a.confidence = row.confidence
    /\ a.metadata.title = row.metadata.title
    /\ a.metadata.topics = row.metadata.topics
    /\ a.metadata.sentiment = row.metadata.sentiment
    /\ a.metadata.keywords = row.metadata.keywords

\* C12: round trip.  A SearchAnalyses without topic and keyword, whose limit
\* covers the table, succeeds and returns, for every record saved with
\* success, a record with the same id, text, summary, confidence and
\* metadata title, topics, sentiment and keywords.  (Strings are made of
\* ASCII characters here.)
C12_RoundTrip ==
    (SearchCalled /\ CoversStore(call.query)) =>
        /\ ret.err = ""
        /\ \A row \in store :
              \E k \in DOMAIN ret.results : SameFields(ret.results[k], row)

\* such a search returned two records, one with a title the encoder escapes
\* and one without topics
C12_Witness ==
    /\ SearchCalled
    /\ CoversStore(call.query)
    /\ ret.err = ""
    /\ Len(ret.results) = 2
    /\ \E k \in DOMAIN ret.results :
          \E i \in DOMAIN ret.results[k].metadata.title :
             ret.results[k].metadata.title[i] = "\""
    /\ \E k \in DOMAIN ret.results : ret.results[k].metadata.topics = <<>>

\* sub occurs in text, character for character
Contains(text, sub) ==
    \E i \in 1..(Len(text) - Len(sub) + 1) : SubSeq(text, i, i + Len(sub) - 1) = sub

\* the filters of a query as substring tests: the topic as a quoted token of
\* the serialized metadata, the keyword in the text, the summary or the
\* serialized metadata; an absent filter restricts nothing
Satisfies(row, query) ==
    /\ query.topic # <<>> =>
          Contains(MetadataJSON(row), <<"\"">> \o query.topic \o <<"\"">>)
    /\ query.keyword # <<>> =>
          \/ Contains(row.text, query.keyword)
          \/ Contains(row.summary, query.keyword)
          \/ Contains(MetadataJSON(row), query.keyword)

\* the part of seq that offset and limit keep
Cut(seq, limit, offset) ==
    SubSeq(seq, (IF offset > 0 THEN offset ELSE 0) + 1,
           IF limit > 0
           THEN Min(Len(seq), (IF offset > 0 THEN offset ELSE 0) + limit)
           ELSE Len(seq))

IdsOf(seq) == [k \in DOMAIN seq |-> seq[k].id]

\* ids is the sequence of the ids of rows in an order of descending time of
\* creation, cut by offset and limit
IsSortedCut(ids, rows, query) ==
    \E tb \in TieBreaks(rows) :
       ids = IdsOf(Cut(OrderByCreatedDesc(rows, tb), query.limit, query.offset))

\* C13: every SearchAnalyses returns exactly the stored records that satisfy
\* every supplied filter (the keyword being a substring of text, summary or
\* serialized metadata, topic and keyword combined with AND), ordered by
\* created_at descending and then cut by offset and limit.
C13_SearchFiltersSortsCuts ==
    SearchCalled =>
        /\ ret.err = ""
        /\ IsSortedCut(IdsOf(ret.results),
                       {row \in store : Satisfies(row, call.query)}, call.query)

\* the topics of a returned record include the topic of the query
CarriesTopic(a, topic) == \E i \in DOMAIN a.metadata.topics : a.metadata.topics[i] = Str(topic)

SameLetter(a, b) == a = b \/ (IsLetter(a) /\ IsLetter(b) /\ ToUpper(a) = ToUpper(b))

\* seg is at position p of text, _ standing for any one character
SegAt(text, seg, p) ==
    /\ p + Len(seg) - 1 <= Len(text)
    /\ \A k \in 1..Len(seg) : seg[k] = "_" \/ SameLetter(seg[k], text[p + k - 1])

RECURSIVE Segments(_)
\* the parts of s between its % characters
Segments(s) ==
    IF \A i \in DOMAIN s : s[i] # "%" THEN <<s>>
    ELSE <<SubSeq(s, 1, (CHOOSE i \in DOMAIN s :
                             s[i] = "%" /\ \A k \in 1..(i - 1) : s[k] # "%") - 1)>>
         \o Segments(SubSeq(s, (CHOOSE i \in DOMAIN s :
                                   s[i] = "%" /\ \A k \in 1..(i - 1) : s[k] # "%") + 1,
                            Len(s)))

RECURSIVE InOrder(_, _, _)
\* the segments occur in text one after the other, from position from on
InOrder(text, segs, from) ==
    \/ segs = <<>>
    \/ \E p \in from..(Len(text) + 1) :
          /\ SegAt(text, Head(segs), p)
          /\ InOrder(text, Tail(segs), p + Len(Head(segs)))

\* the serialized metadata of row holds the topic between double quotes,
\* letters in either case, % for any run of characters, _ for any character
HasQuotedTopic(row, topic) ==
    InOrder(MetadataJSON(row), Segments(<<"\"">> \o topic \o <<"\"">>), 1)

----------------------------------------------------------------------------
(* properties of GET /search *)

SearchAnswered == resp.op = "search" /\ resp.status = 200

\* the limit of the request was left out or is 0
LimitLeftOut(req) == req.limit.kind = "absent" \/ (req.limit.kind = "int" /\ req.limit.val = 0)

\* C15: whatever integer limit and offset a search request carries, the
\* response holds at most 100 records, and at most 50 when the limit is
\* left out or 0.
C15_AtMostTheCap ==
    SearchAnswered =>
        /\ Len(resp.results) <= MaxLimit
        /\ LimitLeftOut(resp.body) => Len(resp.results) <= DefaultLimit

----------------------------------------------------------------------------
(* properties of the keyword extractor *)

KeywordsReturned == call.fn = "ExtractKeywords" /\ ret.done

\* the i-th word of words is an accepted candidate: a likely noun that in
\* lower case is no stop word and has more than 2 characters
Accepted(words, i) ==
    /\ isLikelyNoun(words[i])
    /\ Str(ToLowerStr(words[i])) \notin stopWords
    /\ Len(words[i]) > 2

\* the distinct accepted candidates, in lower case
CandidatesOf(words) == {ToLowerStr(words[i]) : i \in {k \in DOMAIN words : Accepted(words, k)}}

\* the number of occurrences of candidate c
FreqOf(words, c) ==
    Cardinality({i \in DOMAIN words : Accepted(words, i) /\ ToLowerStr(words[i]) = c})

\* c ranks before d: more occurrences, or as many and c first in the
\* alphabet
RanksBefore(words, c, d) ==
    \/ FreqOf(words, c) > FreqOf(words, d)
    \/ FreqOf(words, c) = FreqOf(words, d) /\ StrLess(c, d)

\* kws are the first n of the candidates of words in the order of their rank
IsTopRanked(kws, words, n) ==
    /\ Len(kws) = Min(n, Cardinality(CandidatesOf(words)))
    /\ \A i \in DOMAIN kws : kws[i] \in CandidatesOf(words)
    /\ \A i, j \in DOMAIN kws : i < j => RanksBefore(words, kws[i], kws[j])
    /\ \A c \in CandidatesOf(words) :
          (\A i \in DOMAIN kws : kws[i] # c) =>
             \A i \in DOMAIN kws : RanksBefore(words, kws[i], c)

\* C16: for every text and every topN >= 1, ExtractKeywords returns the first
\* min(topN, number of distinct accepted candidates) of the accepted
\* candidates ranked by descending frequency, equal frequencies in ascending
\* lexicographic order: at most topN entries, no duplicates, every entry in
\* lower case, longer than 2 characters and no stop word.  The rank is a
\* total order of the candidates, so the input determines the result.
C16_TopRankedCandidates ==
    (KeywordsReturned /\ call.topN >= 1) =>
        /\ ~ret.panic
        /\ IsTopRanked(ret.value, FindAllWords(call.text), call.topN)

\* two of three candidates of equal frequency were returned
C16_Witness ==
    /\ KeywordsReturned
    /\ call.topN = 2
    /\ ~ret.panic
    /\ Len(ret.value) = 2
    /\ Cardinality(CandidatesOf(FindAllWords(call.text))) = 3

\* C17: ExtractKeywords does not fail on degenerate input: for the empty
\* text, for a text made only of stop words and for every topN <= 0 with
\* any text it returns the empty sequence and does not abort.
C17_EmptyOnDegenerateInput ==
    (/\ KeywordsReturned
     /\ \/ call.text = <<>>
        \/ \A i \in DOMAIN FindAllWords(call.text) :
              Str(ToLowerStr(FindAllWords(call.text)[i])) \in stopWords
        \/ call.topN <= 0) =>
        /\ ~ret.panic
        /\ ret.value = <<>>

----------------------------------------------------------------------------
(* properties of the confidence score *)

ConfidenceReturned == call.fn = "CalculateConfidence" /\ ret.done

\* the number of words of s: the places where a run of non-space characters
\* starts
WordsIn(s) ==
    Cardinality({i \in 1..Len(s) : s[i] # " " /\ (i = 1 \/ s[i - 1] = " ")})

\* the bonuses of a text of t words, a summary of w words and n topics, in
\* tenths; the ratio w / t is between 0.05 and 0.3 when t < 20 w and
\* 10 w < 3 t
Bonuses(t, w, n) ==
    (IF t > 50 THEN 2 ELSE IF t > 20 THEN 1 ELSE 0)
    + (IF 5 < w /\ w < 50 THEN 1 ELSE 0)
    + (IF n >= 3 THEN 1 ELSE 0)
    + (IF t > 0 /\ t < 20 * w /\ 10 * w < 3 * t THEN 1 ELSE 0)

\* C18: CalculateConfidence returns 0.0 exactly when text or summary is the
\* empty string; for every other input, a text of whitespace only included,
\* it returns 0.5 plus the bonuses that apply (0.2 for more than 50 words of
\* text, else 0.1 for more than 20; 0.1 for a summary of more than 5 and
\* fewer than 50 words; 0.1 for 3 topics or more; 0.1 for a ratio of summary
\* words to text words between 0.05 and 0.3), so the result is within [0, 1]
\* and never strictly between 0 and 0.5.  Values are in tenths.
C18_ConfidenceIsBasePlusBonuses ==
    ConfidenceReturned =>
        /\ ret.value = 0 <=> (call.text = <<>> \/ call.summary = <<>>)
        /\ (call.text # <<>> /\ call.summary # <<>>) =>
              ret.value = 5 + Bonuses(WordsIn(call.text), WordsIn(call.summary),
                                      Len(call.topics))
        /\ ret.value \in 0..10
        /\ ret.value \notin 1..4

\* a call that earned every bonus
C18_Witness ==
    /\ ConfidenceReturned
    /\ ret.value = 10
    /\ WordsIn(call.text) > 50

----------------------------------------------------------------------------
(* properties of the candidate filter *)

NounReturned == call.fn = "isLikelyNoun" /\ ret.done

\* C19: isLikelyNoun accepts a token of 3 characters or more if and only if
\* its lower-case form ends with one of the suffixes, or the first character
\* of the token as given is upper case, or its lower-case form is in the
\* vocabulary; a capitalized token of 3 characters or more with no suffix
\* and outside the vocabulary is accepted; shorter tokens are rejected.
C19_UpperCaseOnOriginalToken ==
    NounReturned =>
        ret.value =
            (/\ Len(call.word) >= 3
             /\ \/ \E suffix \in nounSuffixes : HasSuffix(ToLowerStr(call.word), suffix)
                \/ IsUpper(call.word[1])
                \/ Str(ToLowerStr(call.word)) \in commonNouns)

----------------------------------------------------------------------------
(* properties of parseJSONResponse *)

ParseReturned == call.fn = "parseJSONResponse" /\ ret.done

\* the result the reply stands for: its summary, or "No summary available"
\* when it has none; its first 3 topics, or the default topics when it has
\* none; its title; its sentiment when that is positive, neutral or
\* negative, else neutral
ResultOfReply(reply) ==
    [summary |-> IF reply.summary.has /\ reply.summary.val # <<>>
                 THEN reply.summary.val ELSE Chars("No summary available"),
     title |-> IF reply.title.has THEN reply.title.val ELSE <<>>,
     topics |-> IF reply.topics.has /\ reply.topics.val # <<>>
                THEN SubSeq(reply.topics.val, 1, Min(3, Len(reply.topics.val)))
                ELSE <<"general", "uncategorized", "text">>,
     sentiment |-> IF /\ reply.sentiment.has
                      /\ Str(reply.sentiment.val) \in {"positive", "neutral", "negative"}
                   THEN Str(reply.sentiment.val) ELSE "neutral"]

\* a result that normalizing leaves as it is
IsNormalized(r) ==
    /\ r.summary # <<>>
    /\ Len(r.topics) >= 1
    /\ Len(r.topics) <= 3
    /\ r.sentiment \in {"positive", "neutral", "negative"}

\* C20: parseJSONResponse on a payload that parses returns a result that is
\* normalized and that normalizing again does not change: the summary is not
\* empty ("No summary available" when the payload had none), the topics are
\* the payload's first 3 topics, or general, uncategorized, text when it had
\* none, the title is the payload's, the sentiment is the payload's when
\* that is positive, neutral or negative and neutral otherwise; on a payload
\* that does not parse it returns the invalid-response error and no result.
C20_ParsedResultIsNormalized ==
    ParseReturned =>
        /\ \A reply \in Replies :
              call.content = ReplyTexts[reply] =>
                 ret.value = [err |-> "", result |-> ResultOfReply(reply)]
        /\ \A o \in OtherReplies :
              call.content = o.text =>
                 ret.value = [err |-> "", result |-> ResultOfReply(o.reply)]
        /\ call.content \in BadReplies =>
              ret.value = [err |-> "invalid JSON response from LLM"]
        /\ ret.value.err = "" =>
              /\ IsNormalized(ret.value.result)
              /\ ResultDefaults(ret.value.result) = ret.value.result

\* a reply of more than 3 topics, no summary and an unknown sentiment was
\* parsed
C20_Witness ==
    /\ ParseReturned
    /\ \E reply \in Replies :
          /\ call.content = ReplyTexts[reply]
          /\ ~reply.summary.has
          /\ Len(reply.topics.val) > 3
          /\ reply.sentiment = Has(Chars("invalid"))
    /\ ret.value.err = ""
    /\ Len(ret.value.result.topics) = 3

----------------------------------------------------------------------------
(* termination of the batch handler *)

\* the goroutine of item i has not sent on the semaphore yet
Waiting(i) == i < Len(tpc) /\ tpc[i + 1] \in {"new", "start"}

\* it holds a slot of the gate
Holding(i) == i < Len(tpc) /\ tpc[i + 1] \in {"analyze", "exit"}

\* it has given its slot back
Released(i) == i < Len(tpc) /\ tpc[i + 1] \in {"wgdone", "done"}

\* C21: when every provider call and every store write returns, every
\* accepted batch call eventually responds: each item task eventually
\* obtains a gate slot, every task that obtained a slot gives it back on
\* every exit path (empty text, provider failure, store failure, success),
\* no task waits forever, and all the slots of the gate are free again when
\* the batch responds.  In steps: no task stays without a slot for ever,
\* and it leaves that state by taking a slot; no task holds its slot for
\* ever, and it leaves that state by giving the slot back; the handler does
\* not stay in a batch for ever, and it leaves the batch by responding, with
\* every task done and the gate empty.
C21_BatchTerminatesAndFreesTheGate ==
    /\ \A i \in 0..(MaxItems - 1) : []<>~Waiting(i)
    /\ \A i \in 0..(MaxItems - 1) : []<>~Holding(i)
    /\ []<>(bpc = "idle")
    /\ [][\A i \in 0..(MaxItems - 1) :
            /\ (Waiting(i) /\ ~Waiting(i)') => (Holding(i)' /\ sem' = sem + 1)
            /\ (Holding(i) /\ ~Holding(i)') => (Released(i)' /\ sem' = sem - 1)]_vars
    /\ [][(bpc # "idle" /\ bpc' = "idle") =>
            /\ \A k \in DOMAIN tpc : tpc[k] = "done"
            /\ resp'.op = "batch"
            /\ resp'.status = 200
            /\ sem' = 0
            /\ wg' = 0]_vars

\* a batch of more items than the gate has slots has responded with a
\* provider failure, a store failure and a success, and the gate is free
C21_Witness ==
    /\ bpc = "idle"
    /\ resp # NoResp
    /\ resp.op = "batch"
    /\ resp.status = 200
    /\ Len(resp.body.texts) > SemaphoreSize
    /\ Len(resp.results) >= 1
    /\ \E k \in DOMAIN resp.failed : resp.failed[k].error = "Analysis failed"
    /\ \E k \in DOMAIN resp.failed : resp.failed[k].error = "Failed to save"
    /\ sem = 0

====
